---- MODULE Spec2Model ----
(***************************************************************************)
(* A model of src/config.c of libgit2: the layered configuration store     *)
(* (git_config), its backend registry ordered by priority, the             *)
(* single-backend get/set policy, foreach, git_config_open_file, and the   *)
(* value coercions git_config__parse_long / __parse_int / __parse_bool.    *)
(*                                                                         *)
(* C strings are sequences of one-character strings; a NULL string is      *)
(* NullValue.  An `int` is a TLA+ integer in [-2^31, 2^31-1] and int       *)
(* arithmetic that can overflow is computed with 32-bit wraparound; a      *)
(* `long int` is 64 bits wide (LP64) and is held as four 16-bit limbs,     *)
(* little endian, two's complement.                                        *)
(***************************************************************************)
EXTENDS Integers, Sequences, FiniteSets, TLC

VARIABLES
    cfgState,   \* "none" | "live" | "freed": the caller's git_config
    cfgFrees,   \* how many times the current git_config has been freed
    files,      \* cfg->files: sequence of file_internal records
    fileState,  \* per backend: "unused" | "live" | "freed"
    freeCount,  \* per backend: how many times file->free was invoked
    openCount,  \* per backend: how many times file->open was invoked
    owner,      \* per backend: file->cfg back-pointer ("NULL" | "cfg")
    content,    \* per backend: the key/value pairs it holds
    out,        \* the caller's git_config** of git_config_open_file
    calls,      \* backend operations and callbacks run by the last operation
    lastBool,   \* the last git_config_set_bool still in effect, if any
    lastOp,     \* the last operation, its arguments and its result
    nops,       \* how many operations the caller has run, up to MaxOps
    value,      \* input of the coercion functions (a C string or NULL)
    parsed      \* result of the last coercion applied to value

vars == <<cfgState, cfgFrees, files, fileState, freeCount, openCount, owner,
          content, out, calls, lastBool, lastOp, nops, value, parsed>>

storeVars == <<cfgState, cfgFrees, files, fileState, freeCount, openCount,
               owner, content, out, calls, lastBool, lastOp, nops>>

parseVars == <<value, parsed>>

(***************************************************************************)
(* Bounds of the model.                                                    *)
(***************************************************************************)
NumFiles == 2
MaxOps == 6
MaxLen == 4

(***************************************************************************)
(* Error codes, with the values of git2/errors.h.  The model reads their   *)
(* sign (error < GIT_SUCCESS) and tells them apart, nothing more.          *)
(***************************************************************************)
GIT_SUCCESS == 0
GIT_ENOTFOUND == -3
GIT_ENOMEM == -4
GIT_EOSERR == -5
GIT_EINVALIDTYPE == -8
GIT_EINVALIDARGS == -29

(***************************************************************************)
(* The width of int.                                                       *)
(***************************************************************************)
MaxInt == 2147483647
MinInt == (-MaxInt) - 1
Limb == 2^16
HalfLimb == 2^15

\* A C string: NULL, or a sequence of characters.
NullValue == [null |-> TRUE, s |-> <<>>]
Str(s) == [null |-> FALSE, s |-> s]

File == 1..NumFiles
Names == {"x", "flag"}
KeyOrder == <<"flag", "x">>

S_true == <<"t", "r", "u", "e">>
S_false == <<"f", "a", "l", "s", "e">>
S_yes == <<"y", "e", "s">>
S_no == <<"n", "o">>
S_on == <<"o", "n">>
S_off == <<"o", "f", "f">>

(***************************************************************************)
(* long int: 64 bits, four 16-bit limbs, little endian, two's complement.  *)
(***************************************************************************)
\* The long holding the int n (the conversion int -> long, sign extended).
ToLong(n) ==
    LET ext == IF n < 0 THEN Limb - 1 ELSE 0
    IN  <<n % Limb, (n \div Limb) % Limb, ext, ext>>

\* x * 1024 in 64 bits.
LongMul1024(x) ==
    LET p1 == x[1] * 1024
        p2 == x[2] * 1024 + (p1 \div Limb)
        p3 == x[3] * 1024 + (p2 \div Limb)
        p4 == x[4] * 1024 + (p3 \div Limb)
    IN  <<p1 % Limb, p2 % Limb, p3 % Limb, p4 % Limb>>

\* x * 1024^k
LongScale(x, k) ==
    IF k = 0 THEN x
    ELSE IF k = 1 THEN LongMul1024(x)
    ELSE IF k = 2 THEN LongMul1024(LongMul1024(x))
    ELSE LongMul1024(LongMul1024(LongMul1024(x)))

\* (int) x: the low 32 bits, read as a signed int.
LongToInt(x) ==
    x[1] + Limb * (IF x[2] >= HalfLimb THEN x[2] - Limb ELSE x[2])

LongZero == <<0, 0, 0, 0>>

(***************************************************************************)
(* Characters.                                                             *)
(***************************************************************************)
UpperLetters == <<"A", "B", "E", "F", "L", "N", "O", "R", "S", "T", "U", "Y">>
LowerLetters == <<"a", "b", "e", "f", "l", "n", "o", "r", "s", "t", "u", "y">>

\* tolower(c), as strcasecmp applies it
ToLower(c) ==
    IF \E i \in 1..Len(UpperLetters) : UpperLetters[i] = c
    THEN LowerLetters[CHOOSE i \in 1..Len(UpperLetters) : UpperLetters[i] = c]
    ELSE c

\* strcasecmp(a, b) == 0
StrCaseEq(a, b) ==
    /\ Len(a) = Len(b)
    /\ \A i \in 1..Len(a) : ToLower(a[i]) = ToLower(b[i])

DecDigits == <<"0", "1", "2", "3", "4", "5", "6", "7", "8", "9">>
HexLower == <<"a", "b", "c", "d", "e", "f">>
HexUpper == <<"A", "B", "C", "D", "E", "F">>

\* The value of c as a digit; 36 (no digit of any base used here) otherwise.
DigitVal(c) ==
    IF \E i \in 1..10 : DecDigits[i] = c
    THEN (CHOOSE i \in 1..10 : DecDigits[i] = c) - 1
    ELSE IF \E i \in 1..6 : HexLower[i] = c
    THEN (CHOOSE i \in 1..6 : HexLower[i] = c) + 9
    ELSE IF \E i \in 1..6 : HexUpper[i] = c
    THEN (CHOOSE i \in 1..6 : HexUpper[i] = c) + 9
    ELSE 36

\* s[p], or "\0" at and past the end of the string
CharAt(s, p) == IF p >= 1 /\ p <= Len(s) THEN s[p] ELSE "\\0"

(***************************************************************************)
(* git__strtol32(&num, value, &num_end, 0): an optional sign, the base     *)
(* taken from the prefix (0x: 16, 0: 8, else 10), a non-empty run of       *)
(* digits that fits in 32 bits.  end is the position of the first          *)
(* character that is not part of the literal.                              *)
(***************************************************************************)
RECURSIVE StrtolDigits(_, _, _, _, _, _)
StrtolDigits(s, p, base, n, ndig, ovfl) ==
    LET v == DigitVal(CharAt(s, p))
    IN  IF v >= base
        THEN [n |-> n, ndig |-> ndig, ovfl |-> ovfl, end |-> p]
        ELSE IF ovfl \/ n > (MaxInt - v) \div base
        THEN StrtolDigits(s, p + 1, base, n, ndig + 1, TRUE)
        ELSE StrtolDigits(s, p + 1, base, n * base + v, ndig + 1, FALSE)

git__strtol32(s) ==
    LET signed == CharAt(s, 1) \in {"-", "+"}
        neg == CharAt(s, 1) = "-"
        p0 == IF signed THEN 2 ELSE 1
        hex == CharAt(s, p0) = "0" /\ CharAt(s, p0 + 1) \in {"x", "X"}
        base == IF CharAt(s, p0) # "0" THEN 10 ELSE IF hex THEN 16 ELSE 8
        p1 == IF hex THEN p0 + 2 ELSE p0
        d == StrtolDigits(s, p1, base, 0, 0, FALSE)
    IN  IF d.ndig = 0 \/ d.ovfl
        THEN [ret |-> GIT_EINVALIDTYPE, num |-> 0, end |-> d.end]
        ELSE [ret |-> GIT_SUCCESS, num |-> IF neg THEN -d.n ELSE d.n,
              end |-> d.end]

(***************************************************************************)
(* The coercions.  A result is [ret, out]: out is <<>> when *out was not   *)
(* written and <<v>> when v was written to it.                             *)
(***************************************************************************)
\* git_config__parse_long(name, value, out), value not NULL
git_config__parse_long(v) ==
    LET r == git__strtol32(v.s)
        c == CharAt(v.s, r.end)
        num == ToLong(r.num)
    IN  IF r.ret < GIT_SUCCESS THEN [ret |-> r.ret, out |-> <<>>]
        ELSE IF c = "\\0" THEN [ret |-> GIT_SUCCESS, out |-> <<num>>]
        ELSE IF c \in {"k", "K"}
        THEN [ret |-> GIT_SUCCESS, out |-> <<LongScale(num, 1)>>]
        ELSE IF c \in {"m", "M"}
        THEN [ret |-> GIT_SUCCESS, out |-> <<LongScale(num, 2)>>]
        ELSE IF c \in {"g", "G"}
        THEN [ret |-> GIT_SUCCESS, out |-> <<LongScale(num, 3)>>]
        ELSE [ret |-> GIT_EINVALIDTYPE, out |-> <<>>]

\* git_config__parse_int(name, value, out); tmp0 is what the uninitialized
\* local tmp holds when git_config__parse_long fails and leaves it unwritten
git_config__parse_int(v, tmp0) ==
    LET r == git_config__parse_long(v)
        tmp == IF r.out = <<>> THEN tmp0 ELSE r.out[1]
    IN  [ret |-> r.ret, out |-> <<LongToInt(tmp)>>]

\* git_config__parse_bool(name, value, out)
git_config__parse_bool(v, tmp0) ==
    IF v.null THEN [ret |-> GIT_SUCCESS, out |-> <<1>>]
    ELSE IF StrCaseEq(v.s, S_true) \/ StrCaseEq(v.s, S_yes)
            \/ StrCaseEq(v.s, S_on)
    THEN [ret |-> GIT_SUCCESS, out |-> <<1>>]
    ELSE IF StrCaseEq(v.s, S_false) \/ StrCaseEq(v.s, S_no)
            \/ StrCaseEq(v.s, S_off)
    THEN [ret |-> GIT_SUCCESS, out |-> <<0>>]
    ELSE LET r == git_config__parse_int(v, tmp0)
         IN  IF r.ret = GIT_SUCCESS
             THEN [ret |-> GIT_SUCCESS,
                   out |-> <<IF r.out[1] # 0 THEN 1 ELSE 0>>]
             ELSE r

(***************************************************************************)
(* The coercions applied to bounded inputs.                                *)
(***************************************************************************)
Chars == {"-", "0", "1", "4", "k", "M", "g", "G", "x"}

Words == {S_true, <<"T", "R", "U", "E">>, S_yes, <<"Y", "e", "s">>, S_on,
          <<"O", "n">>, S_false, <<"F", "a", "l", "s", "E">>, S_no,
          <<"N", "O">>, S_off, <<"o", "F", "F">>,
          <<"b", "a", "n", "a", "n", "a">>, <<"o">>, <<"t", "r", "u">>}

Inputs ==
    {NullValue}
        \cup {Str(w) : w \in Words}
        \cup {Str(s) : s \in UNION {[1..k -> Chars] : k \in 0..MaxLen}}

\* What an uninitialized long may hold.
Indeterminate == {LongZero, ToLong(-1)}

NoResult == [fn |-> "none", ret |-> GIT_SUCCESS, out |-> <<>>]

ParseInit ==
    /\ value \in Inputs
    /\ parsed = NoResult

\* value == NULL is dereferenced by git__strtol32: the callers that reach
\* the integer coercions directly pass a string.
ParseLong ==
    /\ ~value.null
    /\ parsed' = [fn |-> "parse_long"] @@ git_config__parse_long(value)
    /\ UNCHANGED value
    /\ UNCHANGED storeVars

ParseInt ==
    /\ ~value.null
    /\ \E tmp0 \in Indeterminate :
          parsed' = [fn |-> "parse_int"] @@ git_config__parse_int(value, tmp0)
    /\ UNCHANGED value
    /\ UNCHANGED storeVars

ParseBool ==
    /\ \E tmp0 \in Indeterminate :
          parsed' = [fn |-> "parse_bool"] @@ git_config__parse_bool(value, tmp0)
    /\ UNCHANGED value
    /\ UNCHANGED storeVars

(***************************************************************************)
(* The backend registry.                                                   *)
(***************************************************************************)
\* b - a on int, with 32-bit wraparound
IntSub32(b, a) ==
    LET dlo == (b % Limb) - (a % Limb)
        dhi == (b \div Limb) - (a \div Limb) - (IF dlo < 0 THEN 1 ELSE 0)
        hi == ((dhi + HalfLimb) % Limb) - HalfLimb
    IN  hi * Limb + (dlo % Limb)

config_backend_cmp(bk_a, bk_b) == IntSub32(bk_b.priority, bk_a.priority)

Range(v) == {v[i] : i \in 1..Len(v)}

\* git_vector_insert: the element goes to the end of the vector
git_vector_insert(v, e) == Append(v, e)

\* git_vector_sort: qsort with the comparator the vector was initialised
\* with.  The outcomes are the arrangements of the vector in which no
\* element is followed by one the comparator puts before it; elements the
\* comparator calls equal may land in either order.
git_vector_sort(v) ==
    {s \in [1..Len(v) -> Range(v)] :
        /\ Range(s) = Range(v)
        /\ \A i \in 1..(Len(v) - 1) : config_backend_cmp(s[i], s[i + 1]) <= 0}

Priorities == {MinInt, 1, 2}

(***************************************************************************)
(* The backends (git_config_file): get, set, foreach, open, free.          *)
(***************************************************************************)
NoEntry == [present |-> FALSE, v |-> NullValue]
Entry(v) == [present |-> TRUE, v |-> v]
EmptyContent == [n \in Names |-> NoEntry]

\* What a backend may hold once it has been opened.
DiskContents ==
    {EmptyContent,
     [EmptyContent EXCEPT !["x"] = Entry(Str(<<"-", "1">>))],
     [EmptyContent EXCEPT !["x"] = Entry(Str(<<"-", "1">>)),
                          !["flag"] = Entry(NullValue)]}

Call(op, file, name, ret) ==
    [op |-> op, file |-> file, name |-> name, ret |-> ret]

Op(op, name, arg, ret, val) ==
    [op |-> op, name |-> name, arg |-> arg, ret |-> ret, val |-> val]

\* file->get(file, name, out)
file_get(file, name) ==
    LET e == content[file][name]
    IN  IF e.present THEN [ret |-> GIT_SUCCESS, out |-> <<e.v>>]
        ELSE [ret |-> GIT_ENOTFOUND, out |-> <<>>]

\* file->set(file, name, value); ioFail: the backend cannot persist it
file_set(file, name, v, ioFail) ==
    IF ioFail THEN [ret |-> GIT_EOSERR, content |-> content]
    ELSE [ret |-> GIT_SUCCESS,
          content |-> [content EXCEPT ![file][name] = Entry(v)]]

\* file->foreach(file, fn, data): fn once per stored key, until it
\* returns nonzero
RECURSIVE file_foreach_from(_, _, _, _)
file_foreach_from(file, fn, i, log) ==
    IF i > Len(KeyOrder) THEN [ret |-> 0, calls |-> log]
    ELSE IF ~content[file][KeyOrder[i]].present
    THEN file_foreach_from(file, fn, i + 1, log)
    ELSE LET r == fn[KeyOrder[i]]
             log1 == Append(log, Call("callback", file, KeyOrder[i], r))
         IN  IF r # 0 THEN [ret |-> r, calls |-> log1]
             ELSE file_foreach_from(file, fn, i + 1, log1)

file_foreach(file, fn) == file_foreach_from(file, fn, 1, <<>>)

\* file->free(file), on the free counters and on the backend states
FileFree(fc, file) == [fc EXCEPT ![file] = @ + 1]
FileFreed(fs, file) == [fs EXCEPT ![file] = "freed"]

(***************************************************************************)
(* git_config_free: every backend of the vector is freed, in order.        *)
(***************************************************************************)
RECURSIVE FreeLoop(_, _, _, _)
FreeLoop(v, i, fc, fs) ==
    IF i > Len(v) THEN [freeCount |-> fc, fileState |-> fs]
    ELSE FreeLoop(v, i + 1, FileFree(fc, v[i].file), FileFreed(fs, v[i].file))

git_config_free(v, fc, fs) == FreeLoop(v, 1, fc, fs)

(***************************************************************************)
(* git_config_add_file on the vector v: the outcomes [ret, files].         *)
(* fail: "none", or the allocation that fails.                             *)
(***************************************************************************)
AddFails == {"none", "malloc", "insert"}

git_config_add_file(v, file, priority, fail) ==
    IF fail # "none" THEN {[ret |-> GIT_ENOMEM, files |-> v]}
    ELSE {[ret |-> GIT_SUCCESS, files |-> s] :
            s \in git_vector_sort(
                    git_vector_insert(v, [file |-> file, priority |-> priority]))}

(***************************************************************************)
(* Getters and setters, as results computed from the current state.        *)
(***************************************************************************)
git_config_get_string(name) ==
    IF Len(files) = 0
    THEN [ret |-> GIT_EINVALIDARGS, out |-> <<>>, calls |-> <<>>]
    ELSE LET file == files[1].file
             r == file_get(file, name)
         IN  [ret |-> r.ret, out |-> r.out,
              calls |-> <<Call("get", file, name, r.ret)>>]

\* A layered write: the value goes to every backend of the sequence.
git_config_set_string_all(name, v, ioFail) ==
    IF Len(files) = 0
    THEN [ret |-> GIT_EINVALIDARGS, content |-> content, calls |-> <<>>]
    ELSE LET ret == IF ioFail THEN GIT_EOSERR ELSE GIT_SUCCESS
         IN  [ret |-> ret,
              content |-> IF ioFail THEN content
                          ELSE [f \in File |->
                                  IF \E i \in 1..Len(files) : files[i].file = f
                                  THEN [content[f] EXCEPT ![name] = Entry(v)]
                                  ELSE content[f]],
              calls |-> [i \in 1..Len(files) |->
                           Call("set", files[i].file, name, ret)]]

\* No check for an empty sequence: nothing to write to, and success.
git_config_set_string_nocheck(name, v, ioFail) ==
    IF Len(files) = 0
    THEN [ret |-> GIT_SUCCESS, content |-> content, calls |-> <<>>]
    ELSE LET file == files[1].file
             r == file_set(file, name, v, ioFail)
         IN  [ret |-> r.ret, content |-> r.content,
              calls |-> <<Call("set", file, name, r.ret)>>]

git_config_set_string(name, v, ioFail) ==
    IF Len(files) = 0
    THEN [ret |-> GIT_EINVALIDARGS, content |-> content, calls |-> <<>>]
    ELSE LET file == files[1].file
             r == file_set(file, name, v, ioFail)
         IN  [ret |-> r.ret, content |-> r.content,
              calls |-> <<Call("set", file, name, r.ret)>>]

\* snprintf(str_value, sizeof(str_value), "%ld", value)
RECURSIVE DecimalDigits(_)
DecimalDigits(n) ==
    IF n < 10 THEN <<DecDigits[n + 1]>>
    ELSE Append(DecimalDigits(n \div 10), DecDigits[(n % 10) + 1])

FormatLong(n) == IF n < 0 THEN <<"-">> \o DecimalDigits(-n) ELSE DecimalDigits(n)

git_config_set_long(name, n, ioFail) ==
    git_config_set_string(name, Str(FormatLong(n)), ioFail)

git_config_set_int(name, n, ioFail) == git_config_set_long(name, n, ioFail)

\* The boolean written as a number.
git_config_set_bool_numeric(name, b, ioFail) ==
    git_config_set_string(name,
                          IF b # 0 THEN Str(<<"1">>) ELSE Str(<<"0">>), ioFail)

git_config_set_bool(name, b, ioFail) ==
    git_config_set_string(name, IF b # 0 THEN Str(S_true) ELSE Str(S_false),
                          ioFail)

git_config_get_long(name) ==
    LET r == git_config_get_string(name)
    IN  IF r.ret < GIT_SUCCESS THEN r
        ELSE git_config__parse_long(r.out[1]) @@ [calls |-> r.calls]

git_config_get_int(name, tmp0) ==
    LET r == git_config_get_string(name)
    IN  IF r.ret < GIT_SUCCESS THEN r
        ELSE git_config__parse_int(r.out[1], tmp0) @@ [calls |-> r.calls]

git_config_get_bool(name, tmp0) ==
    LET r == git_config_get_string(name)
    IN  IF r.ret < GIT_SUCCESS THEN r
        ELSE git_config__parse_bool(r.out[1], tmp0) @@ [calls |-> r.calls]

\* git_config_get_long and git_config_get_int hand the value to
\* git__strtol32, which reads through it: a NULL value is dereferenced.
NullDeref(name) ==
    LET r == git_config_get_string(name)
    IN  r.ret = GIT_SUCCESS /\ r.out[1].null

(***************************************************************************)
(* git_config_foreach                                                      *)
(***************************************************************************)
RECURSIVE ForeachLoop(_, _, _, _)
ForeachLoop(fn, i, ret, log) ==
    IF i <= Len(files) /\ ret = 0
    THEN LET file == files[i].file
             r == file_foreach(file, fn)
         IN  ForeachLoop(fn, i + 1, r.ret,
                         log \o <<Call("foreach", file, "", r.ret)>> \o r.calls)
    ELSE [ret |-> ret, calls |-> log]

git_config_foreach(fn) == ForeachLoop(fn, 1, GIT_SUCCESS, <<>>)

CbRets == {0, 7, -1}

(***************************************************************************)
(* The operations.                                                         *)
(***************************************************************************)
SetStrings == {Str(<<"-", "1">>)}
SetLongs == {-1}
SetBools == {0, 1, 2}

NoOp == Op("none", "", 0, GIT_SUCCESS, <<>>)
NoBool == <<>>

StoreInit ==
    /\ cfgState = "none"
    /\ cfgFrees = 0
    /\ files = <<>>
    /\ fileState = [f \in File |-> "unused"]
    /\ freeCount = [f \in File |-> 0]
    /\ openCount = [f \in File |-> 0]
    /\ owner = [f \in File |-> "NULL"]
    /\ content = [f \in File |-> EmptyContent]
    /\ out = "unset"
    /\ calls = <<>>
    /\ lastBool = NoBool
    /\ lastOp = NoOp
    /\ nops = 0

\* One more operation has run.
Tick == nops' = IF nops < MaxOps THEN nops + 1 ELSE nops

\* The caller holds no store yet.
CanCreate == cfgState = "none"

\* Backends are numbered in the order in which they are built: the next one
\* built is the first not built yet (NumFiles + 1: there is none left).
NextFile ==
    IF \A f \in File : fileState[f] # "unused" THEN NumFiles + 1
    ELSE CHOOSE f \in File :
            /\ fileState[f] = "unused"
            /\ \A g \in File : g < f => fileState[g] # "unused"

\* git_config_new(&cfg)
New(fail) ==
    /\ CanCreate
    /\ IF fail
       THEN /\ cfgState' = "none"
            /\ out' = out
            /\ lastOp' = Op("new", "", fail, GIT_ENOMEM, <<>>)
       ELSE /\ cfgState' = "live"
            /\ out' = "cfg"
            /\ lastOp' = Op("new", "", fail, GIT_SUCCESS, <<>>)
    /\ cfgFrees' = 0
    /\ files' = <<>>
    /\ calls' = <<>>
    /\ lastBool' = NoBool
    /\ UNCHANGED <<fileState, freeCount, openCount, owner, content>>
    /\ Tick
    /\ UNCHANGED parseVars

\* The caller builds a backend and loads it, to register it itself.
CallerNewFile(file, disk) ==
    /\ cfgState # "crashed"
    /\ file = NextFile
    /\ fileState' = [fileState EXCEPT ![file] = "live"]
    /\ openCount' = [openCount EXCEPT ![file] = @ + 1]
    /\ content' = [content EXCEPT ![file] = disk]
    /\ calls' = <<Call("open", file, "", GIT_SUCCESS)>>
    /\ lastOp' = Op("new_file", "", file, GIT_SUCCESS, <<>>)
    /\ UNCHANGED <<cfgState, cfgFrees, files, freeCount, owner, out, lastBool>>
    /\ Tick
    /\ UNCHANGED parseVars

\* git_config_add_file(cfg, file, priority)
AddFile(file, priority, fail) ==
    /\ cfgState = "live"
    /\ fileState[file] = "live"
    /\ owner[file] = "NULL"
    /\ \E r \in git_config_add_file(files, file, priority, fail) :
          /\ files' = r.files
          /\ owner' = IF r.ret = GIT_SUCCESS
                      THEN [owner EXCEPT ![file] = "cfg"] ELSE owner
          /\ lastBool' = IF r.ret = GIT_SUCCESS THEN NoBool ELSE lastBool
          /\ lastOp' = Op("add_file", "", <<file, priority>>, r.ret, <<>>)
    /\ calls' = <<>>
    /\ UNCHANGED <<cfgState, cfgFrees, fileState, freeCount, openCount,
                   content, out>>
    /\ Tick
    /\ UNCHANGED parseVars

\* git_config_free(cfg)
Free ==
    /\ cfgState = "live"
    /\ LET r == git_config_free(files, freeCount, fileState)
       IN  /\ freeCount' = r.freeCount
           /\ fileState' = r.fileState
           /\ calls' = [i \in 1..Len(files) |->
                           Call("free", files[i].file, "", GIT_SUCCESS)]
    /\ files' = <<>>
    /\ cfgState' = "freed"
    /\ cfgFrees' = cfgFrees + 1
    /\ out' = "unset"
    /\ lastBool' = NoBool
    /\ lastOp' = Op("free", "", 0, GIT_SUCCESS, <<>>)
    /\ UNCHANGED <<openCount, owner, content>>
    /\ Tick
    /\ UNCHANGED parseVars

\* git_config_foreach(cfg, fn, data)
Foreach(fn) ==
    /\ cfgState = "live"
    /\ LET r == git_config_foreach(fn)
       IN  /\ calls' = r.calls
           /\ lastOp' = Op("foreach", "", fn, r.ret, <<>>)
    /\ UNCHANGED <<cfgState, cfgFrees, files, fileState, freeCount, openCount,
                   owner, content, out, lastBool>>
    /\ Tick
    /\ UNCHANGED parseVars

Read(op, name, r) ==
    /\ calls' = r.calls
    /\ lastOp' = Op(op, name, 0, r.ret, r.out)
    /\ UNCHANGED <<cfgState, cfgFrees, files, fileState, freeCount, openCount,
                   owner, content, out, lastBool>>
    /\ Tick
    /\ UNCHANGED parseVars

Crash(op, name) ==
    /\ cfgState' = "crashed"
    /\ calls' = git_config_get_string(name).calls
    /\ lastOp' = Op("SIGSEGV", name, op, GIT_SUCCESS, <<>>)
    /\ UNCHANGED <<cfgFrees, files, fileState, freeCount, openCount, owner,
                   content, out, lastBool>>
    /\ Tick
    /\ UNCHANGED parseVars

GetString(name) ==
    /\ cfgState = "live"
    /\ Read("get_string", name, git_config_get_string(name))

GetLong(name) ==
    /\ cfgState = "live"
    /\ IF NullDeref(name) THEN Crash("get_long", name)
       ELSE Read("get_long", name, git_config_get_long(name))

GetInt(name) ==
    /\ cfgState = "live"
    /\ IF NullDeref(name) THEN Crash("get_int", name)
       ELSE \E tmp0 \in Indeterminate :
               Read("get_int", name, git_config_get_int(name, tmp0))

GetBool(name) ==
    /\ cfgState = "live"
    /\ \E tmp0 \in Indeterminate :
          Read("get_bool", name, git_config_get_bool(name, tmp0))

Write(op, name, arg, r) ==
    /\ content' = r.content
    /\ calls' = r.calls
    /\ lastOp' = Op(op, name, arg, r.ret, <<>>)
    /\ lastBool' =
          IF r.ret # GIT_SUCCESS THEN lastBool
          ELSE IF op = "set_bool" THEN <<[name |-> name, b |-> arg]>>
          ELSE IF lastBool # NoBool /\ lastBool[1].name = name THEN NoBool
          ELSE lastBool
    /\ UNCHANGED <<cfgState, cfgFrees, files, fileState, freeCount, openCount,
                   owner, out>>
    /\ Tick
    /\ UNCHANGED parseVars

SetString(name, v, ioFail) ==
    /\ cfgState = "live"
    /\ Write("set_string", name, v, git_config_set_string(name, v, ioFail))

SetLong(name, n, ioFail) ==
    /\ cfgState = "live"
    /\ Write("set_long", name, n, git_config_set_long(name, n, ioFail))

SetInt(name, n, ioFail) ==
    /\ cfgState = "live"
    /\ Write("set_int", name, n, git_config_set_int(name, n, ioFail))

SetBool(name, b, ioFail) ==
    /\ cfgState = "live"
    /\ Write("set_bool", name, b, git_config_set_bool(name, b, ioFail))

(***************************************************************************)
(* git_config_open_file(&out, path).  file is the backend                  *)
(* git_config_file__ondisk builds, disk what the file at path holds, fail  *)
(* the step that fails ("none": all succeed).                              *)
(***************************************************************************)
OpenFails == {"none", "new", "ondisk", "add_malloc", "add_insert", "open"}

\* git_config_open_file freeing the backend itself, too, when open fails.
OpenFile_doublefree(file, disk, fail) ==
    /\ CanCreate
    /\ file = NextFile
    /\ lastBool' = NoBool
    /\ IF fail = "new"
       THEN \* git_config_new fails: nothing was built
            /\ cfgState' = "none"
            /\ cfgFrees' = 0
            /\ files' = <<>>
            /\ calls' = <<>>
            /\ lastOp' = Op("open_file", "", file, GIT_ENOMEM, <<>>)
            /\ UNCHANGED <<fileState, freeCount, openCount, owner, content, out>>
       ELSE IF fail = "ondisk"
       THEN \* git_config_file__ondisk fails: git_config_free(cfg)
            LET r == git_config_free(<<>>, freeCount, fileState)
            IN  /\ cfgState' = "freed"
                /\ cfgFrees' = 1
                /\ files' = <<>>
                /\ freeCount' = r.freeCount
                /\ fileState' = r.fileState
                /\ calls' = <<>>
                /\ lastOp' = Op("open_file", "", file, GIT_EOSERR, <<>>)
                /\ UNCHANGED <<openCount, owner, content, out>>
       ELSE \E a \in git_config_add_file(
                        <<>>, file, 1,
                        IF fail = "add_malloc" THEN "malloc"
                        ELSE IF fail = "add_insert" THEN "insert" ELSE "none") :
            LET built == [fileState EXCEPT ![file] = "live"]
            IN  IF a.ret < GIT_SUCCESS
                THEN \* file->free(file); git_config_free(cfg)
                     LET r == git_config_free(a.files,
                                              FileFree(freeCount, file),
                                              FileFreed(built, file))
                     IN  /\ cfgState' = "freed"
                         /\ cfgFrees' = 1
                         /\ files' = <<>>
                         /\ freeCount' = r.freeCount
                         /\ fileState' = r.fileState
                         /\ calls' = <<Call("free", file, "", GIT_SUCCESS)>>
                         /\ lastOp' = Op("open_file", "", file, a.ret, <<>>)
                         /\ UNCHANGED <<openCount, owner, content, out>>
                ELSE IF fail = "open"
                THEN \* file->open(file) fails: file->free(file); git_config_free(cfg)
                     LET r == git_config_free(a.files,
                                              FileFree(freeCount, file),
                                              FileFreed(built, file))
                     IN  /\ cfgState' = "freed"
                         /\ cfgFrees' = 1
                         /\ files' = <<>>
                         /\ freeCount' = r.freeCount
                         /\ fileState' = r.fileState
                         /\ openCount' = [openCount EXCEPT ![file] = @ + 1]
                         /\ owner' = [owner EXCEPT ![file] = "cfg"]
                         /\ calls' = <<Call("open", file, "", GIT_EOSERR),
                                       Call("free", file, "", GIT_SUCCESS)>>
                         /\ lastOp' = Op("open_file", "", file, GIT_EOSERR, <<>>)
                         /\ UNCHANGED <<content, out>>
                ELSE /\ cfgState' = "live"
                     /\ cfgFrees' = 0
                     /\ files' = a.files
                     /\ fileState' = built
                     /\ openCount' = [openCount EXCEPT ![file] = @ + 1]
                     /\ owner' = [owner EXCEPT ![file] = "cfg"]
                     /\ content' = [content EXCEPT ![file] = disk]
                     /\ out' = "cfg"
                     /\ calls' = <<Call("open", file, "", GIT_SUCCESS)>>
                     /\ lastOp' = Op("open_file", "", file, GIT_SUCCESS, <<>>)
                     /\ UNCHANGED freeCount
    /\ Tick
    /\ UNCHANGED parseVars

OpenFile(file, disk, fail) ==
    /\ CanCreate
    /\ file = NextFile
    /\ lastBool' = NoBool
    /\ IF fail = "new"
       THEN \* git_config_new fails: nothing was built
            /\ cfgState' = "none"
            /\ cfgFrees' = 0
            /\ files' = <<>>
            /\ calls' = <<>>
            /\ lastOp' = Op("open_file", "", file, GIT_ENOMEM, <<>>)
            /\ UNCHANGED <<fileState, freeCount, openCount, owner, content, out>>
       ELSE IF fail = "ondisk"
       THEN \* git_config_file__ondisk fails: git_config_free(cfg)
            LET r == git_config_free(<<>>, freeCount, fileState)
            IN  /\ cfgState' = "freed"
                /\ cfgFrees' = 1
                /\ files' = <<>>
                /\ freeCount' = r.freeCount
                /\ fileState' = r.fileState
                /\ calls' = <<>>
                /\ lastOp' = Op("open_file", "", file, GIT_EOSERR, <<>>)
                /\ UNCHANGED <<openCount, owner, content, out>>
       ELSE \E a \in git_config_add_file(
                        <<>>, file, 1,
                        IF fail = "add_malloc" THEN "malloc"
                        ELSE IF fail = "add_insert" THEN "insert" ELSE "none") :
            LET built == [fileState EXCEPT ![file] = "live"]
            IN  IF a.ret < GIT_SUCCESS
                THEN \* file->free(file); git_config_free(cfg)
                     LET r == git_config_free(a.files,
                                              FileFree(freeCount, file),
                                              FileFreed(built, file))
                     IN  /\ cfgState' = "freed"
                         /\ cfgFrees' = 1
                         /\ files' = <<>>
                         /\ freeCount' = r.freeCount
                         /\ fileState' = r.fileState
                         /\ calls' = <<Call("free", file, "", GIT_SUCCESS)>>
                         /\ lastOp' = Op("open_file", "", file, a.ret, <<>>)
                         /\ UNCHANGED <<openCount, owner, content, out>>
                ELSE IF fail = "open"
                THEN \* file->open(file) fails: git_config_free(cfg)
                     LET r == git_config_free(a.files, freeCount, built)
                     IN  /\ cfgState' = "freed"
                         /\ cfgFrees' = 1
                         /\ files' = <<>>
                         /\ freeCount' = r.freeCount
                         /\ fileState' = r.fileState
                         /\ openCount' = [openCount EXCEPT ![file] = @ + 1]
                         /\ owner' = [owner EXCEPT ![file] = "cfg"]
                         /\ calls' = <<Call("open", file, "", GIT_EOSERR),
                                       Call("free", file, "", GIT_SUCCESS)>>
                         /\ lastOp' = Op("open_file", "", file, GIT_EOSERR, <<>>)
                         /\ UNCHANGED <<content, out>>
                ELSE /\ cfgState' = "live"
                     /\ cfgFrees' = 0
                     /\ files' = a.files
                     /\ fileState' = built
                     /\ openCount' = [openCount EXCEPT ![file] = @ + 1]
                     /\ owner' = [owner EXCEPT ![file] = "cfg"]
                     /\ content' = [content EXCEPT ![file] = disk]
                     /\ out' = "cfg"
                     /\ calls' = <<Call("open", file, "", GIT_SUCCESS)>>
                     /\ lastOp' = Op("open_file", "", file, GIT_SUCCESS, <<>>)
                     /\ UNCHANGED freeCount
    /\ Tick
    /\ UNCHANGED parseVars

(***************************************************************************)
(* The store: every operation, on any arguments.                           *)
(***************************************************************************)
Init ==
    /\ StoreInit
    /\ value = NullValue
    /\ parsed = NoResult

\* The registry and the store's lifetime.
Next ==
    \/ \E fail \in BOOLEAN : New(fail)
    \/ \E file \in File, disk \in DiskContents, fail \in OpenFails :
          OpenFile(file, disk, fail)
    \/ \E file \in File, disk \in DiskContents : CallerNewFile(file, disk)
    \/ \E file \in File, priority \in Priorities, fail \in AddFails :
          AddFile(file, priority, fail)
    \/ Free
    \/ \E name \in Names : GetString(name)

Spec == Init /\ [][Next]_vars

\* A store is built and iterated.
NextForeach ==
    \/ \E fail \in BOOLEAN : New(fail)
    \/ \E file \in File, disk \in DiskContents : CallerNewFile(file, disk)
    \/ \E file \in File, priority \in Priorities, fail \in AddFails :
          AddFile(file, priority, fail)
    \/ \E fn \in [Names -> CbRets] : Foreach(fn)

SpecForeach == Init /\ [][NextForeach]_vars

\* A store is built, read and written, in runs of at most MaxOps operations.
NextAccess ==
    \/ \E fail \in BOOLEAN : nops < MaxOps /\ New(fail)
    \/ \E file \in File, disk \in DiskContents : nops < MaxOps /\ CallerNewFile(file, disk)
    \/ \E file \in File, priority \in Priorities, fail \in AddFails :
          nops < MaxOps /\ AddFile(file, priority, fail)
    \/ \E name \in Names : nops < MaxOps /\ GetString(name)
    \/ \E name \in Names : nops < MaxOps /\ GetLong(name)
    \/ \E name \in Names : nops < MaxOps /\ GetInt(name)
    \/ \E name \in Names : nops < MaxOps /\ GetBool(name)
    \/ \E name \in Names, v \in SetStrings, ioFail \in BOOLEAN :
          nops < MaxOps /\ SetString(name, v, ioFail)
    \/ \E name \in Names, n \in SetLongs, ioFail \in BOOLEAN :
          nops < MaxOps /\ SetLong(name, n, ioFail)
    \/ \E name \in Names, n \in SetLongs, ioFail \in BOOLEAN :
          nops < MaxOps /\ SetInt(name, n, ioFail)
    \/ \E name \in Names, b \in SetBools, ioFail \in BOOLEAN :
          nops < MaxOps /\ SetBool(name, b, ioFail)

SpecAccess == Init /\ [][NextAccess]_vars

(***************************************************************************)
(* The coercions alone: every bounded input, every coercion.               *)
(***************************************************************************)
InitParse ==
    /\ StoreInit
    /\ ParseInit

NextParse ==
    \/ ParseLong
    \/ ParseInt
    \/ ParseBool

SpecParse == InitParse /\ [][NextParse]_vars

(***************************************************************************)
(* Properties.                                                             *)
(***************************************************************************)
GetOps == {"get_string", "get_long", "get_int", "get_bool"}
SetOps == {"set_string", "set_long", "set_int", "set_bool"}

Registered == {f \in File : \E i \in 1..Len(files) : files[i].file = f}

SortedDescending(v) ==
    \A i, j \in 1..Len(v) : i < j => v[i].priority >= v[j].priority

\* C1: every successful git_config_add_file leaves cfg->files sorted
\* descending by priority, holding exactly the backends registered so far,
\* each once.
C1_SortedAfterAdd ==
    (lastOp.op = "add_file" /\ lastOp.ret = GIT_SUCCESS) =>
        /\ SortedDescending(files)
        /\ Registered = {f \in File : owner[f] = "cfg"}
        /\ Len(files) = Cardinality(Registered)

\* The backend at index 0 has the greatest priority of the sequence.
TopIsMaximal ==
    \A i \in 1..Len(files) : files[1].priority >= files[i].priority

\* git_config_get_string called get on the backend at index 0 and on no
\* other, and returned its result unchanged.
GetStringDelegates ==
    (lastOp.op = "get_string" /\ Len(files) > 0) =>
        LET top == files[1].file
            e == content[top][lastOp.name]
        IN  /\ calls = <<Call("get", top, lastOp.name, lastOp.ret)>>
            /\ e.present => lastOp.ret = GIT_SUCCESS /\ lastOp.val = <<e.v>>
            /\ ~e.present => lastOp.ret = GIT_ENOTFOUND /\ lastOp.val = <<>>

\* C2: git_config_get_string on a store with a backend calls get on the
\* backend at index 0 and on no other, that backend is one of maximal
\* priority, and the result is that backend's, unchanged: the value when
\* it holds the key, GIT_ENOTFOUND when it does not, whatever the backends
\* of lower priority hold.
C2_GetStringTopOnly ==
    /\ GetStringDelegates
    /\ (lastOp.op = "get_string" /\ Len(files) > 0) => TopIsMaximal

\* The top backend lacks the key, a backend of lower priority holds it, and
\* the read ends GIT_ENOTFOUND.
NonMergingRead ==
    /\ lastOp.op = "get_string"
    /\ lastOp.ret = GIT_ENOTFOUND
    /\ Len(files) = 2
    /\ files[1].priority > files[2].priority
    /\ content[files[2].file][lastOp.name].present

\* The backends git_config_foreach ran foreach on, in the order of the calls.
Visited == SelectSeq(calls, LAMBDA c : c.op = "foreach")

\* git_config_foreach visited the backends in the order of the sequence
\* and stopped at the first nonzero return: nothing was called after a
\* callback or a backend's foreach returned nonzero, and that value is the
\* result; with no nonzero return every backend was visited once and the
\* result is 0, also on a store without backends.
ForeachStopsInOrder ==
    lastOp.op = "foreach" =>
        /\ Len(Visited) <= Len(files)
        /\ \A k \in 1..Len(Visited) : Visited[k].file = files[k].file
        /\ \A i \in 1..Len(calls) :
              /\ calls[i].op \in {"foreach", "callback"}
              /\ (calls[i].op = "callback" /\ calls[i].ret # 0) =>
                    /\ i = Len(calls)
                    /\ lastOp.ret = calls[i].ret
              /\ (calls[i].op = "foreach" /\ calls[i].ret # 0) =>
                    /\ \A j \in (i + 1)..Len(calls) : calls[j].op = "callback"
                    /\ lastOp.ret = calls[i].ret
        /\ (\A i \in 1..Len(calls) : calls[i].ret = 0) =>
              /\ lastOp.ret = 0
              /\ Len(Visited) = Len(files)

\* The priority the backend file is registered with.
PriorityOf(file) ==
    (CHOOSE e \in Range(files) : e.file = file).priority

\* C3: git_config_foreach visits the backends in the order of the
\* sequence, highest priority first, stops at the first nonzero return and
\* returns it, and visits every backend once and returns 0 when there is
\* none.
C3_ForeachStops ==
    /\ ForeachStopsInOrder
    /\ lastOp.op = "foreach" =>
          \A i, j \in 1..Len(Visited) :
              i < j => PriorityOf(Visited[i].file) >= PriorityOf(Visited[j].file)

\* The callback returned nonzero in the first of two backends, a key of
\* that backend and the keys of the second one not yet visited.
ForeachStoppedEarly ==
    /\ lastOp.op = "foreach"
    /\ lastOp.ret # 0
    /\ Len(files) = 2
    /\ Len(Visited) = 1
    /\ Len(calls) = 2
    /\ \A n \in Names : content[files[1].file][n].present
    /\ \E n \in Names : content[files[2].file][n].present

\* C4: a write (set_string, set_long, set_int, set_bool) on a store with a
\* backend calls set on the backend at index 0 and on no other; the other
\* backends' contents, the other keys of that backend, and the sequence
\* (entries, priorities, order) are unchanged.
C4_WriteFrame ==
    [][(lastOp'.op \in SetOps /\ Len(files) > 0) =>
          LET top == files[1].file
          IN  /\ files' = files
              /\ calls' = <<Call("set", top, lastOp'.name, lastOp'.ret)>>
              /\ \A f \in File : f # top => content'[f] = content[f]
              /\ \A n \in Names :
                    n # lastOp'.name => content'[top][n] = content[top][n]
              /\ UNCHANGED <<cfgState, fileState, freeCount, owner>>]_vars

\* C4, its case: a write succeeded on a store of two backends, the lower
\* one holding a key.
C4_Witness ==
    /\ lastOp.op \in SetOps
    /\ lastOp.ret = GIT_SUCCESS
    /\ Len(files) = 2
    /\ \E n \in Names : content[files[2].file][n].present
    /\ content[files[1].file][lastOp.name].present

\* C5: on a store without backends the getters and the setters fail with
\* GIT_EINVALIDARGS, call no backend operation, write no result and change
\* nothing of the store or of any backend.
C5_EmptyStoreInvalid ==
    [][(lastOp'.op \in GetOps \cup SetOps /\ Len(files) = 0) =>
          /\ lastOp'.ret = GIT_EINVALIDARGS
          /\ lastOp'.val = <<>>
          /\ calls' = <<>>
          /\ UNCHANGED <<cfgState, cfgFrees, files, fileState, freeCount,
                         openCount, owner, content, out>>]_vars

\* C5, its case: a setter failed on a store without backends while a
\* backend, not registered, is alive.
C5_Witness ==
    /\ lastOp.op = "set_bool"
    /\ lastOp.ret = GIT_EINVALIDARGS
    /\ Len(files) = 0
    /\ \E f \in File : fileState[f] = "live"

SuffixScale(c) ==
    IF c \in {"k", "K"} THEN 1
    ELSE IF c \in {"m", "M"} THEN 2
    ELSE IF c \in {"g", "G"} THEN 3 ELSE 0

IsSuffix(c) == c \in {"k", "K", "m", "M", "g", "G"}

\* s is a signed integer literal followed by nothing, or by one unit
\* suffix and nothing more.
WellFormed(s) ==
    LET r == git__strtol32(s)
    IN  /\ r.ret = GIT_SUCCESS
        /\ \/ r.end = Len(s) + 1
           \/ r.end = Len(s) /\ IsSuffix(s[r.end])

\* C7: git_config__parse_long accepts exactly the literals followed by
\* nothing or by one unit suffix and nothing more, and returns the literal
\* times 1, 1024, 1024^2 or 1024^3; every other input fails with
\* GIT_EINVALIDTYPE.
C7_ParseLongExact ==
    parsed.fn = "parse_long" =>
        IF WellFormed(value.s)
        THEN LET r == git__strtol32(value.s)
             IN  /\ parsed.ret = GIT_SUCCESS
                 /\ parsed.out =
                       <<LongScale(ToLong(r.num),
                                   SuffixScale(CharAt(value.s, r.end)))>>
        ELSE /\ parsed.ret = GIT_EINVALIDTYPE
             /\ parsed.out = <<>>

TrueWords == {S_true, S_yes, S_on}
FalseWords == {S_false, S_no, S_off}

\* C8: git_config__parse_bool yields true for NULL and for true/yes/on in
\* any case, false for false/no/off in any case, and for every other input
\* true iff git_config__parse_long succeeds with a nonzero value, false iff
\* it succeeds with zero, and GIT_EINVALIDTYPE when it fails.
C8_ParseBool ==
    parsed.fn = "parse_bool" =>
        IF value.null \/ \E w \in TrueWords : StrCaseEq(value.s, w)
        THEN parsed.ret = GIT_SUCCESS /\ parsed.out = <<1>>
        ELSE IF \E w \in FalseWords : StrCaseEq(value.s, w)
        THEN parsed.ret = GIT_SUCCESS /\ parsed.out = <<0>>
        ELSE LET r == git_config__parse_long(value)
             IN  IF r.ret < GIT_SUCCESS
                 THEN parsed.ret = GIT_EINVALIDTYPE
                 ELSE /\ parsed.ret = GIT_SUCCESS
                      /\ parsed.out = <<IF r.out[1] # LongZero THEN 1 ELSE 0>>

\* C9: when git_config_open_file fails, no store is written to the
\* caller's output, the store is freed once if it was created and the
\* backend is freed once if it was built; when it succeeds, the output
\* store holds the one backend, at priority 1, opened once.
C9_OpenFileTeardown ==
    lastOp.op = "open_file" =>
        LET file == lastOp.arg
        IN  IF lastOp.ret < GIT_SUCCESS
            THEN /\ out = "unset"
                 /\ files = <<>>
                 /\ cfgState \in {"none", "freed"}
                 /\ cfgFrees = IF cfgState = "freed" THEN 1 ELSE 0
                 /\ fileState[file] \in {"unused", "freed"}
                 /\ freeCount[file] = IF fileState[file] = "freed" THEN 1 ELSE 0
                 /\ openCount[file] <= 1
            ELSE /\ out = "cfg"
                 /\ cfgState = "live"
                 /\ cfgFrees = 0
                 /\ files = <<[file |-> file, priority |-> 1]>>
                 /\ fileState[file] = "live"
                 /\ freeCount[file] = 0
                 /\ openCount[file] = 1

\* C9, its case: the backend was built, registered and opened, open
\* failed, and the teardown has run.
C9_Witness ==
    /\ lastOp.op = "open_file"
    /\ lastOp.ret < GIT_SUCCESS
    /\ openCount[lastOp.arg] = 1
    /\ fileState[lastOp.arg] = "freed"
    /\ cfgState = "freed"

Sign(n) == IF n < 0 THEN -1 ELSE IF n > 0 THEN 1 ELSE 0

\* C10: config_backend_cmp is a descending order on every pair of
\* priorities: negative exactly when pa > pb, positive exactly when
\* pa < pb, zero exactly when pa = pb; so the backend at index 0 has the
\* greatest priority.
C10_ComparatorOrder ==
    /\ \A i, j \in 1..Len(files) :
          Sign(config_backend_cmp(files[i], files[j]))
              = (IF files[i].priority > files[j].priority THEN -1
                 ELSE IF files[i].priority < files[j].priority THEN 1 ELSE 0)
    /\ \A i \in 1..Len(files) : files[1].priority >= files[i].priority

====
